---- MODULE Spec2Model ----
(***************************************************************************)
(* c10::SymInt (src/c10/core/SymInt.cpp): a tagged word that is either a   *)
(* concrete integer or an owning reference to a reference-counted          *)
(* SymIntNodeImpl, with its arithmetic / comparison operators,             *)
(* normalize_symints, toSymIntNodeImpl, toSymInt and guard_int.            *)
(*                                                                         *)
(* The int64_t overloads (lines 151-177) construct a concrete SymInt and    *)
(* call these operators; they add no path of their own.                    *)
(*                                                                         *)
(* The 64-bit word is scaled to WordBits bits; every piece of bit          *)
(* arithmetic is written relative to WordBits.  One call of an operator    *)
(* runs as a frame (pc, op, the parameters and locals of the functions on  *)
(* the call path); while a frame is active nothing else runs, the program  *)
(* being single threaded.  The node implementation is external: nodes are  *)
(* stubs that only carry a reference count, and every call made on a node  *)
(* is recorded in `calls`.                                                 *)
(***************************************************************************)
EXTENDS Integers, Sequences, FiniteSets, TLC

VARIABLES
  mobile,   \* build mode: TRUE when C10_MOBILE is defined
  val,      \* the caller's SymInt variables: slot -> data_ (NoValue: not constructed)
  hnd,      \* the caller's SymIntNode handles: node -> number of handles held
  rc,       \* node -> reference count (0: not allocated / freed)
  pc,       \* position of the running call ("idle": none)
  op,       \* operator of the running call
  lhs,      \* slot of *this
  rhs,      \* slot the argument was copied from ("lit": an int64_t literal)
  outer,    \* parameter sci of operator!= / operator*= (they call == / * with a copy)
  sci,      \* parameter sci of the operator that does the work
  a_,       \* normalize_symints: parameter a_
  b_,       \* normalize_symints: parameter b_
  a,        \* normalize_symints: local SymIntNode a   (guard_int: local a)
  b,        \* normalize_symints: local SymIntNode b
  tmp,      \* the SymInt returned by a_.toSymInt(a) / b_.toSymInt(b), not yet destroyed
  res,      \* operator: auto res = normalize_symints(...)
  ret,      \* value about to be returned (booleans as 0 / 1)
  calls,    \* calls made by the running call, in order: [fn, self, arg, out]
  err,      \* "none", or the fatal check that stopped the program
  wrapped   \* history: a call has created a node with wrap, and since it returned
            \* the caller has only destroyed values and handles

vars == <<mobile, val, hnd, rc, pc, op, lhs, rhs, outer, sci, a_, b_, a, b,
          tmp, res, ret, calls, err, wrapped>>

frame == <<op, lhs, rhs, outer, sci, a_, b_, a, b, tmp, res, ret, calls>>

-----------------------------------------------------------------------------
(* Bounds of the model *)

WordBits == 5      \* width of data_ (64 in the program)
MaxNodes == 3      \* node addresses 1 .. MaxNodes can be allocated
MaxHandles == 1    \* handles the caller keeps at one time

RECURSIVE Pow2(_)
Pow2(n) == IF n = 0 THEN 1 ELSE 2 * Pow2(n - 1)

TwoW == Pow2(WordBits)
Word == (0 - TwoW \div 2) .. (TwoW \div 2 - 1)
NoValue == TwoW            \* outside Word: no SymInt object here
Node == 1 .. MaxNodes
Slots == {"x", "y"}

\* smallest integer of the sign-extended (WordBits-1)-bit range
MinConcrete == 0 - TwoW \div 4
Ints == {-7, 2, MinConcrete}

ArithOps == {"+", "-", "*", "/", "%"}
CmpOps == {"==", "<", "<=", ">", ">="}
OuterOps == {"!=", "*="}

-----------------------------------------------------------------------------
(* Tagged word encoding *)

ToUnsigned(d) == IF d < 0 THEN d + TwoW ELSE d
ToSigned(u) == IF u >= TwoW \div 2 THEN u - TwoW ELSE u
WrapWord(i) == ToSigned(i % TwoW)

\* the tag: top bit set over a clear payload-sign bit
MASK == TwoW \div 2 + TwoW \div 4
IS_SYM == TwoW \div 2
AndMask(u) == (u \div (TwoW \div 4)) * (TwoW \div 4)
AndNotMask(u) == u % (TwoW \div 4)

HasTag(d) == AndMask(ToUnsigned(d)) = IS_SYM

is_symbolic(d) == (~mobile) /\ HasTag(d)

as_int_unchecked(d) == d

toSymIntNodeImplUnowned(d) == AndNotMask(ToUnsigned(d))

-----------------------------------------------------------------------------
(* Reference counts: SymIntNode is an intrusive_ptr<SymIntNodeImpl> *)

IncRef(rcf, n) == IF n = 0 THEN rcf ELSE [rcf EXCEPT ![n] = @ + 1]
DecRef(rcf, n) == IF n = 0 THEN rcf ELSE [rcf EXCEPT ![n] = @ - 1]

\* copy constructor / destructor of a SymInt holding word d
AcquireCopy(rcf, d) ==
  IF d # NoValue /\ is_symbolic(d) THEN IncRef(rcf, toSymIntNodeImplUnowned(d)) ELSE rcf
Release(rcf, d) ==
  IF d # NoValue /\ is_symbolic(d) THEN DecRef(rcf, toSymIntNodeImplUnowned(d)) ELSE rcf

FreeNodes == {n \in Node : rc[n] = 0}
NextFree == CHOOSE n \in FreeNodes : \A m \in FreeNodes : n <= m

Call(f, s, x, o) == [fn |-> f, self |-> s, arg |-> x, out |-> o]

-----------------------------------------------------------------------------
(* SymInt::toSymIntNodeImpl and SymInt::toSymInt *)

\* TORCH_CHECK(is_symbolic())
toSymIntNodeImpl_unchecked(d) == TRUE
toSymIntNodeImpl_check(d) == is_symbolic(d)

\* SymIntNode::reclaim_copy(p): a new handle to p, one more reference
\* (reclaim(p) would take over the reference the word holds)
reclaim_steal(rcf, p) == rcf
reclaim_copy(rcf, p) == [rcf EXCEPT ![p] = @ + 1]

\* rep = (ptr & ~MASK) | IS_SYM; sin_sp.release() leaves the count alone
toSymInt_NoTag(ptr) == ToSigned(AndNotMask(ptr))
toSymInt(ptr) == ToSigned(AndNotMask(ptr) + IS_SYM)

-----------------------------------------------------------------------------
(* The concrete path of the operators *)

BothConcrete_TagBits(d1, d2) == (~HasTag(d1)) /\ (~HasTag(d2))
BothConcrete(d1, d2) == (~is_symbolic(d1)) /\ (~is_symbolic(d2))

Abs(i) == IF i < 0 THEN 0 - i ELSE i
Sign(i) == IF i < 0 THEN 0 - 1 ELSE 1
\* C++ integer division truncates toward zero; % takes the sign of the dividend
TruncDiv(x, y) == Sign(x) * Sign(y) * (Abs(x) \div Abs(y))
TruncRem(x, y) == x - y * TruncDiv(x, y)
Bool(p) == IF p THEN 1 ELSE 0

\* division by zero and MIN / -1 are undefined
DivUB(o, x, y) == o \in {"/", "%"} /\ (y = 0 \/ (x = 0 - TwoW \div 2 /\ y = 0 - 1))

ConcreteOp_LeAsLt(o, x, y) ==
  CASE o = "+" -> WrapWord(x + y)
    [] o = "-" -> WrapWord(x - y)
    [] o = "*" -> WrapWord(x * y)
    [] o = "/" -> TruncDiv(x, y)
    [] o = "%" -> TruncRem(x, y)
    [] o = "==" -> Bool(x = y)
    [] o = "<" -> Bool(x < y)
    [] o = "<=" -> Bool(x < y)
    [] o = ">" -> Bool(x > y)
    [] o = ">=" -> Bool(x >= y)

ConcreteOp(o, x, y) ==
  CASE o = "+" -> WrapWord(x + y)
    [] o = "-" -> WrapWord(x - y)
    [] o = "*" -> WrapWord(x * y)
    [] o = "/" -> TruncDiv(x, y)
    [] o = "%" -> TruncRem(x, y)
    [] o = "==" -> Bool(x = y)
    [] o = "<" -> Bool(x < y)
    [] o = "<=" -> Bool(x <= y)
    [] o = ">" -> Bool(x > y)
    [] o = ">=" -> Bool(x >= y)

\* operator!= calls operator==, operator*= calls operator*
InnerOp(o) == IF o = "!=" THEN "==" ELSE IF o = "*=" THEN "*" ELSE o

NodeOp_SubAsAdd(o) ==
  CASE o = "+" -> "add"
    [] o = "-" -> "add"
    [] o = "*" -> "mul"
    [] o = "/" -> "floordiv"
    [] o = "%" -> "mod"
    [] o = "==" -> "eq"
    [] o = "<" -> "lt"
    [] o = "<=" -> "le"
    [] o = ">" -> "gt"
    [] o = ">=" -> "ge"

\* the node operation each operator delegates to
NodeOp(o) ==
  CASE o = "+" -> "add"
    [] o = "-" -> "sub"
    [] o = "*" -> "mul"
    [] o = "/" -> "floordiv"
    [] o = "%" -> "mod"
    [] o = "==" -> "eq"
    [] o = "<" -> "lt"
    [] o = "<=" -> "le"
    [] o = ">" -> "gt"
    [] o = ">=" -> "ge"

-----------------------------------------------------------------------------
(* Initial state *)

NoFrame ==
  /\ op = "none" /\ lhs = "none" /\ rhs = "none"
  /\ outer = NoValue /\ sci = NoValue /\ a_ = NoValue /\ b_ = NoValue
  /\ a = 0 /\ b = 0 /\ tmp = NoValue /\ res = <<0, 0>> /\ ret = NoValue
  /\ calls = <<>>

Init ==
  /\ mobile \in BOOLEAN
  /\ val = [s \in Slots |-> NoValue]
  /\ hnd = [n \in Node |-> 0]
  /\ rc = [n \in Node |-> 0]
  /\ pc = "idle"
  /\ NoFrame
  /\ err = "none"
  /\ wrapped = FALSE

Idle == err = "none" /\ pc = "idle"
At(l) == err = "none" /\ pc = l

HandlesHeld == LET S[k \in 0 .. MaxNodes] == IF k = 0 THEN 0 ELSE S[k - 1] + hnd[k]
               IN S[MaxNodes]

-----------------------------------------------------------------------------
(* The caller: constructing, copying and destroying values and handles *)

\* SymInt(int64_t d)
Construct(s, i) ==
  /\ Idle /\ val[s] = NoValue
  /\ val' = [val EXCEPT ![s] = i]
  /\ UNCHANGED <<mobile, hnd, rc, pc, frame, err>>
  /\ wrapped' = FALSE

\* SymInt(const SymInt&)
CopyVal(s, t) ==
  /\ Idle /\ val[s] # NoValue /\ val[t] = NoValue
  /\ val' = [val EXCEPT ![t] = val[s]]
  /\ rc' = AcquireCopy(rc, val[s])
  /\ UNCHANGED <<mobile, hnd, pc, frame, err>>
  /\ wrapped' = FALSE

\* ~SymInt()
Destroy(s) ==
  /\ Idle /\ val[s] # NoValue
  /\ val' = [val EXCEPT ![s] = NoValue]
  /\ rc' = Release(rc, val[s])
  /\ UNCHANGED <<mobile, hnd, pc, frame, err, wrapped>>

\* the node implementation hands the caller a handle to a new node
NewNode ==
  /\ Idle /\ FreeNodes # {} /\ HandlesHeld < MaxHandles
  /\ rc' = [rc EXCEPT ![NextFree] = 1]
  /\ hnd' = [hnd EXCEPT ![NextFree] = @ + 1]
  /\ UNCHANGED <<mobile, val, pc, frame, err>>
  /\ wrapped' = FALSE

\* ~SymIntNode()
DropHandle(n) ==
  /\ Idle /\ hnd[n] > 0
  /\ hnd' = [hnd EXCEPT ![n] = @ - 1]
  /\ rc' = DecRef(rc, n)
  /\ UNCHANGED <<mobile, val, pc, frame, err, wrapped>>

\* SymIntNode h = v.toSymIntNodeImpl();
ToHandle(s) ==
  /\ Idle /\ val[s] # NoValue /\ HandlesHeld < MaxHandles
  /\ IF mobile
       THEN /\ err' = "unavailable"
            /\ UNCHANGED <<hnd, rc>>
       ELSE IF ~toSymIntNodeImpl_check(val[s])
         THEN /\ err' = "check_is_symbolic"
              /\ UNCHANGED <<hnd, rc>>
         ELSE /\ rc' = reclaim_copy(rc, toSymIntNodeImplUnowned(val[s]))
              /\ hnd' = [hnd EXCEPT ![toSymIntNodeImplUnowned(val[s])] = @ + 1]
              /\ err' = err
  /\ UNCHANGED <<mobile, val, pc, frame>>
  /\ wrapped' = FALSE

\* SymInt v = SymInt::toSymInt(std::move(h));
CommitHandle(n, s) ==
  /\ Idle /\ hnd[n] > 0 /\ val[s] = NoValue
  /\ IF mobile
       THEN /\ err' = "unavailable"
            /\ UNCHANGED <<hnd, val>>
       ELSE /\ val' = [val EXCEPT ![s] = toSymInt(n)]
            /\ hnd' = [hnd EXCEPT ![n] = @ - 1]
            /\ err' = err
  /\ UNCHANGED <<mobile, rc, pc, frame>>
  /\ wrapped' = FALSE

-----------------------------------------------------------------------------
(* Entering an operator *)

ResetFrame ==
  /\ op' = "none" /\ lhs' = "none" /\ rhs' = "none"
  /\ outer' = NoValue /\ sci' = NoValue /\ a_' = NoValue /\ b_' = NoValue
  /\ a' = 0 /\ b' = 0 /\ tmp' = NoValue /\ res' = <<0, 0>> /\ ret' = NoValue
  /\ calls' = <<>>

\* x op y: the argument is copied into the by-value parameter sci
BeginOp(o, s, t) ==
  /\ Idle /\ val[s] # NoValue /\ val[t] # NoValue
  /\ op' = o /\ lhs' = s /\ rhs' = t
  /\ rc' = AcquireCopy(rc, val[t])
  /\ IF o \in OuterOps
       THEN outer' = val[t] /\ sci' = sci /\ pc' = "outer"
       ELSE sci' = val[t] /\ outer' = outer /\ pc' = "entry"
  /\ UNCHANGED <<mobile, val, hnd, a_, b_, a, b, tmp, res, ret, calls, err>>
  /\ wrapped' = FALSE

\* operator!= : !(*this == sci);  operator*= : *this * sci  -- sci is copied again
OuterCall ==
  /\ At("outer")
  /\ sci' = outer
  /\ rc' = AcquireCopy(rc, outer)
  /\ pc' = "entry"
  /\ UNCHANGED <<mobile, val, hnd, op, lhs, rhs, outer, a_, b_, a, b, tmp, res, ret,
                 calls, err, wrapped>>

AfterInner == IF op \in OuterOps THEN "inner_ret" ELSE "ret"

\* if (!is_symbolic() && !sci.is_symbolic()) return SymInt(data_ op sci.data_);
FastPath ==
  /\ At("entry")
  /\ BothConcrete(val[lhs], sci)
  /\ ~DivUB(InnerOp(op), val[lhs], sci)
  /\ ret' = ConcreteOp(InnerOp(op), val[lhs], sci)
  /\ pc' = AfterInner
  /\ UNCHANGED <<mobile, val, hnd, rc, op, lhs, rhs, outer, sci, a_, b_, a, b, tmp, res,
                 calls, err, wrapped>>

\* data_ / 0, data_ % 0, MIN / -1: undefined behaviour; nothing is known of the
\* program from here on
FastPathUndefined ==
  /\ At("entry")
  /\ BothConcrete(val[lhs], sci)
  /\ DivUB(InnerOp(op), val[lhs], sci)
  /\ err' = "undefined"
  /\ UNCHANGED <<mobile, val, hnd, rc, pc, frame, wrapped>>

\* auto res = normalize_symints(*this, sci);  -- both arguments copied by value
SlowPath ==
  /\ At("entry")
  /\ ~BothConcrete(val[lhs], sci)
  /\ IF mobile
       THEN /\ err' = "unavailable"
            /\ UNCHANGED <<rc, a_, b_, calls, pc>>
       ELSE /\ a_' = val[lhs] /\ b_' = sci
            /\ rc' = AcquireCopy(AcquireCopy(rc, val[lhs]), sci)
            /\ calls' = Append(calls, Call("normalize_symints", 0, 0, 0))
            /\ pc' = "norm_a"
            /\ err' = err
  /\ UNCHANGED <<mobile, val, hnd, op, lhs, rhs, outer, sci, a, b, tmp, res, ret, wrapped>>

-----------------------------------------------------------------------------
(* normalize_symints *)

\* toSymInt(SymIntNode sin_sp) takes its handle by value: the argument `a` is
\* copied into sin_sp, one more reference
CopyHandleArg_Borrowed(rcf, h) == rcf
CopyHandleArg(rcf, h) == IncRef(rcf, h)

\* the caller's variables after `a_.toSymInt(a);` -- a_ is normalize_symints' own
\* copy and the returned SymInt is not assigned to anything
CallerAfterCommit_InPlace(v, s, w) == [v EXCEPT ![s] = w]
CallerAfterCommit(v, s, w) == v

\* the test that guards each conversion: a_.is_symbolic(), b_.is_symbolic(),
\* and in guard_int the negation of !is_symbolic()
NeedsHandle(d) == is_symbolic(d)

\* if (a_.is_symbolic()) a = a_.toSymIntNodeImpl();
NormA ==
  /\ At("norm_a")
  /\ IF NeedsHandle(a_)
       THEN IF toSymIntNodeImpl_check(a_)
         THEN /\ a' = toSymIntNodeImplUnowned(a_)
              /\ rc' = reclaim_copy(rc, toSymIntNodeImplUnowned(a_))
              /\ calls' = Append(calls, Call("toSymIntNodeImpl", 0, a_,
                                              toSymIntNodeImplUnowned(a_)))
              /\ pc' = "norm_b"
              /\ err' = err
         ELSE err' = "check_is_symbolic" /\ UNCHANGED <<a, rc, calls, pc>>
       ELSE pc' = "norm_b" /\ UNCHANGED <<a, rc, calls, err>>
  /\ UNCHANGED <<mobile, val, hnd, op, lhs, rhs, outer, sci, a_, b_, b, tmp, res, ret,
                 wrapped>>

\* if (b_.is_symbolic()) b = b_.toSymIntNodeImpl();
NormB ==
  /\ At("norm_b")
  /\ IF NeedsHandle(b_)
       THEN IF toSymIntNodeImpl_check(b_)
         THEN /\ b' = toSymIntNodeImplUnowned(b_)
              /\ rc' = reclaim_copy(rc, toSymIntNodeImplUnowned(b_))
              /\ calls' = Append(calls, Call("toSymIntNodeImpl", 0, b_,
                                              toSymIntNodeImplUnowned(b_)))
              /\ pc' = "wrap_a"
              /\ err' = err
         ELSE err' = "check_is_symbolic" /\ UNCHANGED <<b, rc, calls, pc>>
       ELSE pc' = "wrap_a" /\ UNCHANGED <<b, rc, calls, err>>
  /\ UNCHANGED <<mobile, val, hnd, op, lhs, rhs, outer, sci, a_, b_, a, tmp, res, ret,
                 wrapped>>

\* SymIntNodeImpl* common = a ? a.get() : b.get();
common == IF a # 0 THEN a ELSE b

\* if (!a) { a = common->wrap(a_.as_int_unchecked()); ...
WrapA ==
  /\ At("wrap_a")
  /\ IF a # 0
       THEN pc' = "wrap_b" /\ UNCHANGED <<a, rc, calls, wrapped, err>>
       ELSE IF common = 0
         THEN err' = "null_common" /\ UNCHANGED <<a, rc, calls, wrapped, pc>>
         ELSE /\ FreeNodes # {}
              /\ a' = NextFree
              /\ rc' = [rc EXCEPT ![NextFree] = 1]
              /\ calls' = Append(calls, Call("wrap", common, as_int_unchecked(a_), NextFree))
              /\ wrapped' = TRUE
              /\ pc' = "commit_a"
              /\ err' = err
  /\ UNCHANGED <<mobile, val, hnd, op, lhs, rhs, outer, sci, a_, b_, b, tmp, res, ret>>

\* ... a_.toSymInt(a); }   -- static, a passed by value, the result not stored
CommitA ==
  /\ At("commit_a")
  /\ rc' = CopyHandleArg(rc, a)
  /\ tmp' = toSymInt(a)
  /\ val' = CallerAfterCommit(val, lhs, toSymInt(a))
  /\ calls' = Append(calls, Call("toSymInt", 0, a, toSymInt(a)))
  /\ pc' = "discard_a"
  /\ UNCHANGED <<mobile, hnd, op, lhs, rhs, outer, sci, a_, b_, a, b, res, ret,
                 err, wrapped>>

\* the temporary SymInt is destroyed at the end of the statement
DiscardA ==
  /\ At("discard_a")
  /\ rc' = Release(rc, tmp)
  /\ tmp' = NoValue
  /\ pc' = "wrap_b"
  /\ UNCHANGED <<mobile, val, hnd, op, lhs, rhs, outer, sci, a_, b_, a, b, res, ret,
                 calls, err, wrapped>>

\* if (!b) { b = common->wrap(b_.as_int_unchecked()); ...
WrapB ==
  /\ At("wrap_b")
  /\ IF b # 0
       THEN pc' = "norm_ret" /\ UNCHANGED <<b, rc, calls, wrapped>>
       ELSE /\ FreeNodes # {}
            /\ b' = NextFree
            /\ rc' = [rc EXCEPT ![NextFree] = 1]
            /\ calls' = Append(calls, Call("wrap", common, as_int_unchecked(b_), NextFree))
            /\ wrapped' = TRUE
            /\ pc' = "commit_b"
  /\ UNCHANGED <<mobile, val, hnd, op, lhs, rhs, outer, sci, a_, b_, a, tmp, res, ret, err>>

\* ... b_.toSymInt(b); }
CommitB ==
  /\ At("commit_b")
  /\ rc' = CopyHandleArg(rc, b)
  /\ tmp' = toSymInt(b)
  /\ val' = CallerAfterCommit(val, rhs, toSymInt(b))
  /\ calls' = Append(calls, Call("toSymInt", 0, b, toSymInt(b)))
  /\ pc' = "discard_b"
  /\ UNCHANGED <<mobile, hnd, op, lhs, rhs, outer, sci, a_, b_, a, b, res, ret,
                 err, wrapped>>

DiscardB ==
  /\ At("discard_b")
  /\ rc' = Release(rc, tmp)
  /\ tmp' = NoValue
  /\ pc' = "norm_ret"
  /\ UNCHANGED <<mobile, val, hnd, op, lhs, rhs, outer, sci, a_, b_, a, b, res, ret,
                 calls, err, wrapped>>

\* return {a, b};  -- the array copies the handles, then a, b, a_, b_ are destroyed
NormRet ==
  /\ At("norm_ret")
  /\ res' = <<a, b>>
  /\ rc' = Release(Release(DecRef(DecRef(IncRef(IncRef(rc, a), b), a), b), a_), b_)
  /\ a' = 0 /\ b' = 0 /\ a_' = NoValue /\ b_' = NoValue
  /\ pc' = "dispatch"
  /\ UNCHANGED <<mobile, val, hnd, op, lhs, rhs, outer, sci, tmp, ret, calls, err, wrapped>>

-----------------------------------------------------------------------------
(* Dispatch to the node and return *)

\* return SymInt::toSymInt(res[0]->add(res[1]));  (sub, mul, floordiv, mod)
DispatchArith ==
  /\ At("dispatch")
  /\ InnerOp(op) \in ArithOps
  /\ FreeNodes # {}
  /\ rc' = [rc EXCEPT ![NextFree] = 1]
  /\ ret' = toSymInt(NextFree)
  /\ calls' = calls \o <<Call(NodeOp(InnerOp(op)), res[1], res[2], NextFree),
                         Call("toSymInt", 0, NextFree, toSymInt(NextFree))>>
  /\ pc' = AfterInner
  /\ UNCHANGED <<mobile, val, hnd, op, lhs, rhs, outer, sci, a_, b_, a, b, tmp, res,
                 err, wrapped>>

\* return res[0]->eq(res[1])->bool_();  (lt, le, gt, ge)
\* the boolean node lives only inside the return expression
DispatchCmp ==
  /\ At("dispatch")
  /\ InnerOp(op) \in CmpOps
  /\ FreeNodes # {}
  /\ \E bv \in {0, 1} :
       /\ ret' = bv
       /\ calls' = calls \o <<Call(NodeOp(InnerOp(op)), res[1], res[2], NextFree),
                              Call("bool_", NextFree, 0, bv)>>
  /\ pc' = AfterInner
  /\ UNCHANGED <<mobile, val, hnd, rc, op, lhs, rhs, outer, sci, a_, b_, a, b, tmp, res,
                 err, wrapped>>

\* operator== / operator* return into operator!= / operator*=
InnerRet ==
  /\ At("inner_ret")
  /\ rc' = Release(DecRef(DecRef(rc, res[1]), res[2]), sci)
  /\ res' = <<0, 0>>
  /\ sci' = NoValue
  /\ ret' = IF op = "!=" THEN 1 - ret ELSE ret
  /\ pc' = "ret"
  /\ UNCHANGED <<mobile, val, hnd, op, lhs, rhs, outer, a_, b_, a, b, tmp, calls,
                 err, wrapped>>

\* a word computed on the concrete path that carries the tag
TaggedConcreteResult ==
  /\ pc = "ret" /\ InnerOp(op) \in ArithOps /\ calls = <<>>
  /\ is_symbolic(ret)

\* the locals and parameters of the call are destroyed
AfterCleanup == Release(Release(DecRef(DecRef(DecRef(rc, res[1]), res[2]), a), sci), outer)

\* SymInt z = x op y;  -- the caller keeps the results that are nodes
ReturnStore(d) ==
  /\ At("ret") /\ op \in ArithOps /\ calls # <<>>
  /\ val[d] = NoValue
  /\ val' = [val EXCEPT ![d] = ret]
  /\ rc' = AfterCleanup
  /\ pc' = "idle"
  /\ ResetFrame
  /\ UNCHANGED <<mobile, hnd, err, wrapped>>

\* x op y;  -- the result is a temporary
ReturnDiscard ==
  /\ At("ret") /\ op \in ArithOps /\ ~TaggedConcreteResult
  /\ rc' = Release(AfterCleanup, ret)
  /\ pc' = "idle"
  /\ ResetFrame
  /\ UNCHANGED <<mobile, val, hnd, err, wrapped>>

\* operator*= : *this = *this * sci;  -- move assignment releases the old value
ReturnAssign ==
  /\ At("ret") /\ op = "*=" /\ ~TaggedConcreteResult
  /\ val' = [val EXCEPT ![lhs] = ret]
  /\ rc' = Release(AfterCleanup, val[lhs])
  /\ pc' = "idle"
  /\ ResetFrame
  /\ UNCHANGED <<mobile, hnd, err, wrapped>>

\* comparisons and guard_int return a bool / an int64_t
ReturnScalar ==
  /\ At("ret") /\ op \in CmpOps \cup {"!=", "guard_int"}
  /\ rc' = AfterCleanup
  /\ pc' = "idle"
  /\ ResetFrame
  /\ UNCHANGED <<mobile, val, hnd, err, wrapped>>

-----------------------------------------------------------------------------
(* SymInt::guard_int *)

BeginGuard(s) ==
  /\ Idle /\ val[s] # NoValue
  /\ op' = "guard_int" /\ lhs' = s
  /\ pc' = "g_entry"
  /\ UNCHANGED <<mobile, val, hnd, rc, rhs, outer, sci, a_, b_, a, b, tmp, res, ret,
                 calls, err>>
  /\ wrapped' = FALSE

\* if (!is_symbolic()) return data_;
GuardConcrete ==
  /\ At("g_entry")
  /\ ~NeedsHandle(val[lhs])
  /\ ret' = val[lhs]
  /\ pc' = "ret"
  /\ UNCHANGED <<mobile, val, hnd, rc, op, lhs, rhs, outer, sci, a_, b_, a, b, tmp, res,
                 calls, err, wrapped>>

\* SymIntNode a = toSymIntNodeImpl();
GuardSymbolic ==
  /\ At("g_entry")
  /\ NeedsHandle(val[lhs])
  /\ IF mobile
       THEN err' = "unavailable" /\ UNCHANGED <<a, rc, calls, pc>>
       ELSE IF toSymIntNodeImpl_check(val[lhs])
         THEN /\ a' = toSymIntNodeImplUnowned(val[lhs])
              /\ rc' = reclaim_copy(rc, toSymIntNodeImplUnowned(val[lhs]))
              /\ calls' = Append(calls, Call("toSymIntNodeImpl", 0, val[lhs],
                                              toSymIntNodeImplUnowned(val[lhs])))
              /\ pc' = "g_node"
              /\ err' = err
         ELSE err' = "check_is_symbolic" /\ UNCHANGED <<a, rc, calls, pc>>
  /\ UNCHANGED <<mobile, val, hnd, op, lhs, rhs, outer, sci, a_, b_, b, tmp, res, ret,
                 wrapped>>

\* return a->guard_int(file, line);  -- the node answers, or throws (NoValue)
GuardNode ==
  /\ At("g_node")
  /\ \E i \in Ints \cup {NoValue} :
       /\ ret' = i
       /\ calls' = Append(calls, Call("guard_int", a, 0, i))
  /\ pc' = "ret"
  /\ UNCHANGED <<mobile, val, hnd, rc, op, lhs, rhs, outer, sci, a_, b_, a, b, tmp, res,
                 err, wrapped>>

-----------------------------------------------------------------------------
(* Specification *)

Next ==
  \/ \E s \in Slots, i \in Ints : Construct(s, i)
  \/ \E s \in Slots, t \in Slots : CopyVal(s, t)
  \/ \E s \in Slots : Destroy(s)
  \/ NewNode
  \/ \E n \in Node : DropHandle(n)
  \/ \E s \in Slots : ToHandle(s)
  \/ \E n \in Node, s \in Slots : CommitHandle(n, s)
  \/ \E o \in ArithOps \cup CmpOps \cup OuterOps, s \in Slots, t \in Slots : BeginOp(o, s, t)
  \/ OuterCall
  \/ FastPath
  \/ FastPathUndefined
  \/ SlowPath
  \/ NormA
  \/ NormB
  \/ WrapA
  \/ CommitA
  \/ DiscardA
  \/ WrapB
  \/ CommitB
  \/ DiscardB
  \/ NormRet
  \/ DispatchArith
  \/ DispatchCmp
  \/ InnerRet
  \/ \E d \in Slots : ReturnStore(d)
  \/ ReturnDiscard
  \/ ReturnAssign
  \/ ReturnScalar
  \/ \E s \in Slots : BeginGuard(s)
  \/ GuardConcrete
  \/ GuardSymbolic
  \/ GuardNode

Spec == Init /\ [][Next]_vars

-----------------------------------------------------------------------------
(* Properties *)

\* the argument the running operator was called with
Arg == IF op \in OuterOps THEN outer ELSE sci

BinaryOps == ArithOps \cup CmpOps
SlowReturn == err = "none" /\ pc = "ret" /\ calls # <<>>
FastReturn == err = "none" /\ pc = "ret" /\ calls = <<>>

RefsWord(d, n) ==
  IF d # NoValue /\ is_symbolic(d) /\ toSymIntNodeImplUnowned(d) = n THEN 1 ELSE 0
RefsHandle(h, n) == IF h = n THEN 1 ELSE 0

\* the result of the symbolic path owns its node; a concrete-path word owns nothing
RetOwns(n) ==
  IF pc \in {"ret", "inner_ret"} /\ InnerOp(op) \in ArithOps /\ calls # <<>>
    THEN RefsWord(ret, n) ELSE 0

\* every SymInt object and every SymIntNode handle alive that refers to node n
Holders(n) ==
    RefsWord(val["x"], n) + RefsWord(val["y"], n)
  + RefsWord(outer, n) + RefsWord(sci, n) + RefsWord(a_, n) + RefsWord(b_, n)
  + RefsWord(tmp, n) + RetOwns(n)
  + RefsHandle(a, n) + RefsHandle(b, n) + RefsHandle(res[1], n) + RefsHandle(res[2], n)
  + hnd[n]

Quiescent == pc = "idle" /\ (\A s \in Slots : val[s] = NoValue) /\ HandlesHeld = 0

\* C1: ownership balance.  At every point of every call path (the operators,
\* guard_int, normalize_symints, toSymIntNodeImpl, toSymInt, wrap) a node's
\* reference count is exactly the number of values and handles alive that refer
\* to it: no count is left behind and none is taken early; once every copy,
\* handle and result is destroyed every node, the wrapped ones included, is freed.
C1_OwnershipBalance ==
  /\ \A n \in Node : rc[n] = Holders(n)
  /\ Quiescent => \A n \in Node : rc[n] = 0

\* a call wrapped a concrete operand, and everything has been destroyed since
C1_Witness == Quiescent /\ wrapped /\ \A n \in Node : rc[n] = 0

OperandsKeptStep ==
  /\ (pc # "idle" /\ op \in BinaryOps) => (val'[lhs] = val[lhs] /\ val'[rhs] = val[rhs])
  /\ (pc = "idle" /\ pc' # "idle") => val' = val

C3Ops == {"+", "-", "*", "==", "!=", "<", "<=", ">", ">="}
ConcretePair ==
  pc # "idle" /\ op \in C3Ops /\ ~is_symbolic(val[lhs]) /\ Arg # NoValue /\ ~is_symbolic(Arg)
SameWord(w, i) == w \in Word /\ (w - i) % TwoW = 0
Truth(w, p) == (w = 1 /\ p) \/ (w = 0 /\ ~p)

\* C3: on two concrete operands +, -, * return the machine result (the sum,
\* difference, product modulo 2^WordBits) and ==, !=, <, <=, >, >= the truth of
\* the comparison of the two integers; no function of the symbolic path is called
\* and no reference count changes at any step of the call.
C3_ConcretePath ==
  /\ []((err = "none" /\ pc = "ret" /\ ConcretePair) =>
          /\ calls = <<>>
          /\ res = <<0, 0>> /\ a = 0 /\ b = 0 /\ tmp = NoValue
          /\ op = "+" => SameWord(ret, val[lhs] + Arg)
          /\ op = "-" => SameWord(ret, val[lhs] - Arg)
          /\ op = "*" => SameWord(ret, val[lhs] * Arg)
          /\ op = "==" => Truth(ret, val[lhs] = Arg)
          /\ op = "!=" => Truth(ret, val[lhs] # Arg)
          /\ op = "<" => Truth(ret, val[lhs] < Arg)
          /\ op = "<=" => Truth(ret, val[lhs] <= Arg)
          /\ op = ">" => Truth(ret, val[lhs] > Arg)
          /\ op = ">=" => Truth(ret, val[lhs] >= Arg))
  /\ [][(ConcretePair \/ ConcretePair') => (rc' = rc /\ hnd' = hnd)]_vars

\* 2 <= 2 has returned true on the concrete path
C3_Witness ==
  /\ FastReturn /\ op = "<=" /\ val[lhs] = 2 /\ sci = 2 /\ ret = 1

\* floor convention: a = b * q + r with r between 0 and b, 0 included, b excluded
IsFloorQuotient(q, x, y) ==
  LET r == x - y * q IN IF y > 0 THEN 0 <= r /\ r < y ELSE y < r /\ r <= 0
IsFloorRemainder(r, x, y) ==
  /\ IF y > 0 THEN 0 <= r /\ r < y ELSE y < r /\ r <= 0
  /\ \E q \in Word : x - y * q = r

\* C4 (as claimed): on two concrete operands, b # 0, a / b is the floor quotient
\* and a % b the floor remainder, for negative operands too (-7 / 2 = -4,
\* -7 % 2 = 1).
C4_FloorDivMod ==
  (FastReturn /\ op \in {"/", "%"} /\ sci # 0) =>
     /\ op = "/" => IsFloorQuotient(ret, val[lhs], sci)
     /\ op = "%" => IsFloorRemainder(ret, val[lhs], sci)

\* C5 (as claimed): once toSymInt has been given a handle, the returned value is
\* symbolic, decodes to the handle's node, and no caller holds a handle to that
\* node any more; normalize_symints in particular does not.
C5_HandleConsumed ==
  tmp # NoValue =>
     /\ is_symbolic(tmp)
     /\ toSymIntNodeImplUnowned(tmp) \in Node
     /\ a # toSymIntNodeImplUnowned(tmp)
     /\ b # toSymIntNodeImplUnowned(tmp)

\* the caller moves handle n into the empty variable s
IsCommit(n, s) ==
  pc = "idle" /\ pc' = "idle" /\ err' = "none" /\ hnd'[n] = hnd[n] - 1 /\ val[s] = NoValue
    /\ val'[s] # NoValue

CommitStep ==
  /\ \A n \in Node, s \in Slots :
        IsCommit(n, s) =>
          (is_symbolic(val'[s]) /\ toSymIntNodeImplUnowned(val'[s]) = n /\ rc' = rc)
  /\ (pc = "dispatch" /\ pc' # "dispatch" /\ InnerOp(op) \in ArithOps) =>
        /\ is_symbolic(ret')
        /\ rc[toSymIntNodeImplUnowned(ret')] = 0
        /\ rc'[toSymIntNodeImplUnowned(ret')] = 1
  /\ (pc = "commit_a" /\ pc' = "discard_a") =>
        (a' = a /\ rc' = [rc EXCEPT ![a] = @ + 1])
  /\ (pc = "commit_b" /\ pc' = "discard_b") =>
        (b' = b /\ rc' = [rc EXCEPT ![b] = @ + 1])

\* C5 (amended): toSymInt moves the reference of the handle object it receives
\* into the tagged word: the count is not changed by the call, the value returned
\* is symbolic and decodes to the node's address.  The handle is received by
\* value: a caller that moves its handle in is left without it, while
\* normalize_symints passes copies of a and b (one more reference each), drops the
\* value returned and goes on holding and returning a and b.
C5_CommitMovesOneReference ==
  /\ [][CommitStep]_vars
  /\ [](tmp # NoValue =>
          /\ is_symbolic(tmp)
          /\ toSymIntNodeImplUnowned(tmp) \in Node
          /\ toSymIntNodeImplUnowned(tmp) = (IF pc = "discard_a" THEN a ELSE b)
          /\ rc[toSymIntNodeImplUnowned(tmp)] = 2)

\* a_.toSymInt(a) has returned: the temporary and the handle a share the node
C5_Witness ==
  /\ pc = "discard_a" /\ tmp # NoValue /\ is_symbolic(tmp)
  /\ a = toSymIntNodeImplUnowned(tmp) /\ rc[a] = 2

\* the caller gains a handle to node n, which is alive
GainsHandle(n) == pc = "idle" /\ pc' = "idle" /\ rc[n] > 0 /\ hnd'[n] = hnd[n] + 1

ConversionStep ==
  /\ \A n \in Node :
        GainsHandle(n) =>
          /\ \E s \in Slots : val[s] # NoValue /\ is_symbolic(val[s])
                                /\ toSymIntNodeImplUnowned(val[s]) = n
          /\ rc' = [rc EXCEPT ![n] = @ + 1]
          /\ val' = val
  /\ (pc = "norm_a" /\ a' # a) =>
        (a' = toSymIntNodeImplUnowned(a_) /\ a_' = a_ /\ rc' = [rc EXCEPT ![a'] = @ + 1])
  /\ (pc = "norm_b" /\ b' # b) =>
        (b' = toSymIntNodeImplUnowned(b_) /\ b_' = b_ /\ rc' = [rc EXCEPT ![b'] = @ + 1])
  /\ (pc = "g_entry" /\ a' # a) =>
        (a' = toSymIntNodeImplUnowned(val[lhs]) /\ val' = val
           /\ rc' = [rc EXCEPT ![a'] = @ + 1])

\* C6: toSymIntNodeImpl on a symbolic value returns a handle to the node the value
\* refers to, adds exactly one to that node's count and to no other, and leaves
\* the value as it was, so it can be converted again; the same holds of the
\* conversions inside normalize_symints and guard_int.
C6_SharedHandle == [][ConversionStep]_vars

\* a value and a handle obtained from it share node n: count 2
C6_Witness ==
  \E n \in Node, s \in Slots :
     /\ pc = "idle" /\ hnd[n] = 1 /\ rc[n] = 2
     /\ val[s] # NoValue /\ is_symbolic(val[s]) /\ toSymIntNodeImplUnowned(val[s]) = n
     /\ \A t \in Slots \ {s} : val[t] = NoValue

FailedCheckStep ==
  /\ \A s \in Slots :
        (ToHandle(s) /\ ~mobile /\ ~HasTag(val[s])) =>
          (err' = "check_is_symbolic" /\ rc' = rc /\ hnd' = hnd /\ val' = val)
  /\ (err = "none" /\ err' = "check_is_symbolic") =>
        (rc' = rc /\ hnd' = hnd /\ val' = val /\ pc = "idle")

\* C7: toSymIntNodeImpl on a concrete value stops with the failed check, hands
\* out no handle, changes no count and no value; the check never fails inside an
\* operator or guard_int.
C7_ConcreteConversionFails ==
  /\ [][FailedCheckStep]_vars
  /\ [](err = "check_is_symbolic" => pc = "idle")

\* the caller converted the concrete 2 and the check stopped the program
C7_Witness ==
  /\ err = "check_is_symbolic" /\ pc = "idle"
  /\ \E s \in Slots : val[s] = 2
  /\ \A n \in Node : rc[n] = 0

\* C8: on the mobile build no operator, operator*= or guard_int call runs one of
\* the stubs: every call passes the concrete test and never leaves the concrete
\* path, whatever the operand words are.
C8_MobileNeverStub ==
  mobile =>
     /\ calls = <<>>
     /\ pc \in {"idle", "outer", "entry", "inner_ret", "ret", "g_entry"}
     /\ err = "unavailable" => pc = "idle"
     /\ pc = "entry" => (~is_symbolic(val[lhs]) /\ ~is_symbolic(sci))
     /\ pc = "g_entry" => ~is_symbolic(val[lhs])

\* mobile: + on a word whose top bits read as the tag has returned on the concrete path
C8_Witness ==
  /\ mobile /\ FastReturn /\ op = "+"
  /\ HasTag(val[lhs])

NodeCall == calls[Len(calls) - 1]
WrapCalls == {i \in DOMAIN calls : calls[i].fn = "wrap"}
WrappedAs(w, by) ==
  CHOOSE n \in 0 .. MaxNodes :
     \/ \E i \in WrapCalls : calls[i].arg = w /\ calls[i].self = by /\ calls[i].out = n
     \/ n = 0 /\ ~\E i \in WrapCalls : calls[i].arg = w /\ calls[i].self = by

\* C9: with a symbolic operand, an arithmetic operator returns the encoding of
\* the node made by add / sub / mul / floordiv / mod called on the left operand's
\* node with the right operand's node; a concrete operand is first wrapped by the
\* other operand's node, once, and nothing is wrapped when both are symbolic.
C9_DelegatesToNode ==
  (SlowReturn /\ op \in ArithOps) =>
     LET lsym == is_symbolic(val[lhs])
         rsym == is_symbolic(sci)
         ln == IF lsym THEN toSymIntNodeImplUnowned(val[lhs])
               ELSE WrappedAs(val[lhs], toSymIntNodeImplUnowned(sci))
         rn == IF rsym THEN toSymIntNodeImplUnowned(sci)
               ELSE WrappedAs(sci, toSymIntNodeImplUnowned(val[lhs]))
     IN /\ lsym \/ rsym
        /\ <<op, NodeCall.fn>> \in {<<"+", "add">>, <<"-", "sub">>, <<"*", "mul">>,
                                     <<"/", "floordiv">>, <<"%", "mod">>}
        /\ ln \in Node /\ rn \in Node
        /\ NodeCall.self = ln /\ NodeCall.arg = rn
        /\ is_symbolic(ret) /\ toSymIntNodeImplUnowned(ret) = NodeCall.out
        /\ Cardinality(WrapCalls) = (IF lsym THEN 0 ELSE 1) + (IF rsym THEN 0 ELSE 1)

\* -7 / y with y symbolic: -7 was wrapped by y's node and floordiv called on it
C9_Witness ==
  /\ SlowReturn /\ op = "/" /\ val[lhs] = -7 /\ is_symbolic(sci)
  /\ NodeCall.fn = "floordiv" /\ Cardinality(WrapCalls) = 1

\* C10 (as claimed): the result of +, -, * and *= on two concrete values is a
\* concrete value: the word does not carry the tag.
C10_ConcreteClosed ==
  (FastReturn /\ (~mobile) /\ op \in {"+", "-", "*", "*="}) => ~is_symbolic(ret)

====
